---- MODULE Spec2Model ----
(***************************************************************************)
(* A model of the ist-hyt driver: the frame decoder and accessors of       *)
(* measurement.rs, the scaling arithmetic of Measurement::value_scaled at  *)
(* its machine widths (u16, u32, u64, i64, i32), and the Hyt handle of     *)
(* lib.rs with its I2C transport.                                          *)
(*                                                                         *)
(* Rust's fixed-width integers wider than 31 bits are modelled as          *)
(* little-endian sequences of 14-bit limbs (3 for u32, 5 for u64), so      *)
(* every wrap-around and truncation of the source is computed, not         *)
(* assumed away.                                                           *)
(***************************************************************************)
EXTENDS Integers, Sequences, FiniteSets, TLC

VARIABLES
    overflow_checks,  \* build profile: TRUE when integer overflow panics
    \* --- Hyt handle and transport (lib.rs) ---
    hyt,          \* the caller's handle: [mode, address] or NoHandle
    bus,          \* transactions seen by the I2C transport, in order
    calls,        \* driver calls made by the caller, in order
    last,         \* outcome of the latest driver call
    pc,           \* "running" or "panicked"
    \* --- Measurement under examination (measurement.rs) ---
    frame,        \* the 4-byte frame handed to from_raw
    decoded,      \* result of Measurement::from_raw, or NotCalled
    staleLog,     \* results of the is_stale queries made so far
    query,        \* latest accessor call [fn, scale, res], or NotCalled
    \* --- value_scaled under examination (measurement.rs) ---
    args,         \* [min, max, scale]: the arguments held fixed
    sample,       \* latest raw passed to value_scaled, or -1
    result,       \* latest outcome of value_scaled, or NotCalled
    prevSample,   \* the raw of the call before, or -1
    prevResult    \* the outcome of the call before, or NotCalled

vars == <<overflow_checks, hyt, bus, calls, last, pc, frame, decoded, staleLog, query,
          args, sample, result, prevSample, prevResult>>

hytVars == <<hyt, bus, calls, last, pc>>
measVars == <<frame, decoded, staleLog, query>>
scaleVars == <<args, sample, result, prevSample, prevResult>>

NotCalled == [kind |-> "NotCalled"]
NoHandle == [mode |-> "None", address |-> 0]

(***************************************************************************)
(* Machine arithmetic                                                      *)
(***************************************************************************)

I32_MAX == 2147483647

\* Bitwise AND / OR of two naturals, bit by bit.
RECURSIVE BitAnd(_, _)
BitAnd(a, b) ==
    IF a = 0 \/ b = 0 THEN 0
    ELSE (IF a % 2 = 1 /\ b % 2 = 1 THEN 1 ELSE 0) + 2 * BitAnd(a \div 2, b \div 2)

RECURSIVE BitOr(_, _)
BitOr(a, b) ==
    IF a = 0 THEN b
    ELSE IF b = 0 THEN a
    ELSE (IF a % 2 = 1 \/ b % 2 = 1 THEN 1 ELSE 0) + 2 * BitOr(a \div 2, b \div 2)

\* u16 shifts: << drops the bits shifted out of 16, >> is logical.
Shl16(a, n) == (a * (2 ^ n)) % 65536
Shr16(a, n) == a \div (2 ^ n)

\* Wide integers are sequences of 14-bit limbs, least significant first:
\* three limbs hold a u32, five hold a u64 or the magnitude of an i64.
B == 2 ^ 14

\* Limbs of a natural n < 2^31.
ToLimbs3(n) == <<n % B, (n \div B) % B, n \div (B * B)>>
ToLimbs5(n) == <<n % B, (n \div B) % B, n \div (B * B), 0, 0>>

\* Exact product of two u32 values, as five limbs.
MulLimbs(a, b) ==
    LET c1 == a[1] * b[1]
        c2 == a[1] * b[2] + a[2] * b[1] + c1 \div B
        c3 == a[1] * b[3] + a[2] * b[2] + a[3] * b[1] + c2 \div B
        c4 == a[2] * b[3] + a[3] * b[2] + c3 \div B
        c5 == a[3] * b[3] + c4 \div B
    IN  <<c1 % B, c2 % B, c3 % B, c4 % B, c5>>

\* Sum of two five-limb numbers (the operands here never carry out).
AddLimbs(a, b) ==
    LET c1 == a[1] + b[1]
        c2 == a[2] + b[2] + c1 \div B
        c3 == a[3] + b[3] + c2 \div B
        c4 == a[4] + b[4] + c3 \div B
        c5 == a[5] + b[5] + c4 \div B
    IN  <<c1 % B, c2 % B, c3 % B, c4 % B, c5>>

\* a - b for five-limb a >= b, with borrow.
SubLimbs(a, b) ==
    LET d1 == a[1] - b[1]
        d2 == a[2] - b[2] - (IF d1 < 0 THEN 1 ELSE 0)
        d3 == a[3] - b[3] - (IF d2 < 0 THEN 1 ELSE 0)
        d4 == a[4] - b[4] - (IF d3 < 0 THEN 1 ELSE 0)
        d5 == a[5] - b[5] - (IF d4 < 0 THEN 1 ELSE 0)
    IN  <<d1 % B, d2 % B, d3 % B, d4 % B, d5>>

\* a >= b for five-limb numbers, most significant limb first.
Geq(a, b) ==
    IF a[5] # b[5] THEN a[5] > b[5]
    ELSE IF a[4] # b[4] THEN a[4] > b[4]
    ELSE IF a[3] # b[3] THEN a[3] > b[3]
    ELSE IF a[2] # b[2] THEN a[2] > b[2]
    ELSE a[1] >= b[1]

\* Quotient of a five-limb number by a divisor d <= B (long division).
DivSmall(a, d) ==
    LET n5 == a[5]
        n4 == (n5 % d) * B + a[4]
        n3 == (n4 % d) * B + a[3]
        n2 == (n3 % d) * B + a[2]
        n1 == (n2 % d) * B + a[1]
    IN  <<n1 \div d, n2 \div d, n3 \div d, n4 \div d, n5 \div d>>

\* Whether a five-limb number exceeds u32::MAX.
ExceedsU32(a) == a[3] >= 16 \/ a[4] # 0 \/ a[5] # 0

\* The value modulo 2^32, as a u32.
Low32(a) == <<a[1], a[2], a[3] % 16>>

\* Two's-complement negation of a u32, modulo 2^32.
Neg32(a) ==
    IF a[1] = 0 /\ a[2] = 0
    THEN <<0, 0, (16 - a[3]) % 16>>
    ELSE LET low == B * B - (a[1] + B * a[2])
         IN  <<low % B, low \div B, 15 - a[3]>>

\* Reinterpret the 32 bits of a u32 as an i32.
BitsToI32(a) ==
    (IF a[3] >= 8 THEN a[3] - 16 ELSE a[3]) * (B * B) + B * a[2] + a[1]

\* A signed wide integer (i64) is [neg, mag] with mag five limbs.
\* i64 addition of a non-negative q and a signed m.
AddI64(q, m) ==
    IF ~m.neg THEN [neg |-> FALSE, mag |-> AddLimbs(q, m.mag)]
    ELSE IF Geq(q, m.mag) THEN [neg |-> FALSE, mag |-> SubLimbs(q, m.mag)]
    ELSE [neg |-> TRUE, mag |-> SubLimbs(m.mag, q)]

\* i32::try_from(v).is_ok() for an i64 v.
FitsI32(v) ==
    /\ v.mag[4] = 0 /\ v.mag[5] = 0
    /\ \/ v.mag[3] < 8
       \/ v.neg /\ v.mag[3] = 8 /\ v.mag[1] = 0 /\ v.mag[2] = 0

\* `v as i32` for an i64 v: keep the low 32 bits of the two's complement.
AsI32(v) == BitsToI32(IF v.neg THEN Neg32(Low32(v.mag)) ELSE Low32(v.mag))

\* `x as u32` for an i16 x: sign-extended to 32 bits.
I16AsU32(x) ==
    IF x >= 0 THEN ToLimbs3(x)
    ELSE <<(B * B + x) % B, (B * B + x) \div B, 15>>

\* i16 wrapping_sub.
WrappingSubI16(a, b) == ((a - b + 32768) % 65536) - 32768

(***************************************************************************)
(* Outcomes                                                                *)
(***************************************************************************)

Ok(v) == [kind |-> "Ok", val |-> v]
Err(e) == [kind |-> "Err", err |-> e]
Panic == [kind |-> "Panic"]

\* Result::unwrap
unwrap(r) == IF r.kind = "Ok" THEN Ok(r.val) ELSE Panic

(***************************************************************************)
(* measurement.rs                                                          *)
(***************************************************************************)

RAW_VALUE_MAX == 16383

\* Mutant: the stale bit is tested in place of the command-mode bit.
from_raw_tests_stale_bit(raw) ==
    IF BitAnd(raw[1], 64) = 0
    THEN Ok([raw |-> raw])
    ELSE Err("MeasurementTakenInCommandMode")

from_raw(raw) ==
    IF BitAnd(raw[1], 128) = 0
    THEN Ok([raw |-> raw])
    ELSE Err("MeasurementTakenInCommandMode")

\* Mutant: the command-mode bit is read in place of the stale bit.
is_stale_reads_command_bit(m) == BitAnd(m.raw[1], 128) # 0

is_stale(m) == BitAnd(m.raw[1], 64) # 0

\* Mutant: the mask keeps the stale bit in the humidity field.
humidity_raw_wide_mask(m) == BitOr(Shl16(BitAnd(m.raw[1], 127), 8), m.raw[2])

humidity_raw(m) == BitOr(Shl16(BitAnd(m.raw[1], 63), 8), m.raw[2])

temperature_raw(m) == BitOr(Shl16(m.raw[3], 6), Shr16(m.raw[4], 2))

\* `max.wrapping_sub(min) as u32`
range_u32(min, max) == I16AsU32(WrappingSubI16(max, min))

\* The product `x * range` before it is fitted to u32, as five limbs.
raw_times_range(x, min, max) == MulLimbs(ToLimbs3(x), range_u32(min, max))

\* Whether `raw * range` or `RAW_VALUE_MAX * range` exceeds u32.
mul_overflows(raw, min, max) ==
    \/ ExceedsU32(raw_times_range(raw, min, max))
    \/ ExceedsU32(raw_times_range(RAW_VALUE_MAX, min, max))

\* `i64::from(scale) * i64::from(min)`
min_scaled(min, scale) ==
    [neg |-> min < 0 /\ scale # 0,
     mag |-> MulLimbs(ToLimbs3(scale), ToLimbs3(IF min < 0 THEN -min ELSE min))]

\* Mutant: the rounding term is left out, so the division truncates.
numerator_without_round(x, min, max, scale) ==
    MulLimbs(ToLimbs3(scale), Low32(raw_times_range(x, min, max)))

\* `u64::from(scale) * u64::from(x * range) + round`, the product x * range
\* wrapped to u32.
numerator(x, min, max, scale) ==
    AddLimbs(MulLimbs(ToLimbs3(scale), Low32(raw_times_range(x, min, max))),
             ToLimbs5(RAW_VALUE_MAX \div 2))

\* `((numerator / u64::from(RAW_VALUE_MAX)) as i64) + min_scaled`
scaled_i64(x, min, max, scale) ==
    AddI64(DivSmall(numerator(x, min, max, scale), RAW_VALUE_MAX), min_scaled(min, scale))

\* Mutant: the representability check is made on the requested raw's value
\* instead of the maximum's.
value_scaled_checks_actual(raw, min, max, scale) ==
    IF ~(max > min) \/ ~(raw <= RAW_VALUE_MAX) THEN Panic
    ELSE IF overflow_checks /\ mul_overflows(raw, min, max) THEN Panic
    ELSE IF ~FitsI32(scaled_i64(raw, min, max, scale))
    THEN Err("ScaleValueOutOfBounds")
    ELSE Ok(AsI32(scaled_i64(raw, min, max, scale)))

\* raw: u16, min and max: i16, scale: u32 (here 0 .. 2^31 - 1).
value_scaled(raw, min, max, scale) ==
    IF ~(max > min) \/ ~(raw <= RAW_VALUE_MAX) THEN Panic
    ELSE IF overflow_checks /\ mul_overflows(raw, min, max) THEN Panic
    ELSE IF ~FitsI32(scaled_i64(RAW_VALUE_MAX, min, max, scale))
    THEN Err("ScaleValueOutOfBounds")
    ELSE Ok(AsI32(scaled_i64(raw, min, max, scale)))

humidity_scaled(m, scale) == value_scaled(humidity_raw(m), 0, 100, scale)

temperature_scaled(m, scale) == value_scaled(temperature_raw(m), -40, 125, scale)

humidity(m) == unwrap(humidity_scaled(m, 1))

temperature(m) == unwrap(temperature_scaled(m, 1))

\* The bits handed to I8F24::from_bits.
humidity_i8f24(m) == unwrap(humidity_scaled(m, 2 ^ 24))

temperature_i8f24(m) == unwrap(temperature_scaled(m, 2 ^ 24))

(***************************************************************************)
(* Idle values of the parts a specification does not exercise              *)
(***************************************************************************)

HytIdle ==
    /\ hyt = NoHandle /\ bus = <<>> /\ calls = <<>> /\ last = NotCalled
    /\ pc = "running"

MeasIdle ==
    /\ frame = <<0, 0, 0, 0>> /\ decoded = NotCalled /\ staleLog = <<>>
    /\ query = NotCalled

ScaleIdle ==
    /\ args = [min |-> 0, max |-> 1, scale |-> 0]
    /\ sample = -1 /\ result = NotCalled
    /\ prevSample = -1 /\ prevResult = NotCalled

(***************************************************************************)
(* SpecScale: value_scaled as a function of raw, for fixed (min, max,      *)
(* scale) drawn from its signature's domain.                               *)
(***************************************************************************)

NumRawSteps == 8

\* Raw samples spread over [0, RAW_VALUE_MAX], with both ends and the middle.
RawSamples ==
    {(k * RAW_VALUE_MAX) \div NumRawSteps : k \in 0..NumRawSteps} \cup {1, 8192}

\* (min, max) pairs: the two ranges the accessors use and others an i16
\* pair can take.
Ranges ==
    {<<0, 100>>, <<-40, 125>>, <<-1, 1>>, <<1, 2>>, <<-32768, -1>>,
     <<0, 32767>>, <<-32768, 32767>>}

Scales == {0, 1, 100, 100000, 2 ^ 24, 17179869, 17179870, 21474836, 21474837, I32_MAX}

ScaleInit ==
    /\ overflow_checks \in BOOLEAN
    /\ \E mm \in Ranges, s \in Scales :
           args = [min |-> mm[1], max |-> mm[2], scale |-> s]
    /\ sample = -1 /\ result = NotCalled
    /\ prevSample = -1 /\ prevResult = NotCalled
    /\ HytIdle /\ MeasIdle

\* One more call of value_scaled with the same (min, max, scale); a panic
\* ends the program.
ValueScaled ==
    /\ result.kind # "Panic"
    /\ \E r \in RawSamples :
          /\ sample' = r
          /\ result' = value_scaled(r, args.min, args.max, args.scale)
    /\ prevSample' = sample
    /\ prevResult' = result
    /\ UNCHANGED <<overflow_checks, args, hytVars, measVars>>

ScaleNext == ValueScaled

SpecScale == ScaleInit /\ [][ScaleNext]_vars

\* C9: for fixed (min, max, scale) with max > min and a scale that passes
\* the overflow check, value_scaled is non-decreasing in raw.
MonotoneInRaw ==
    (/\ prevResult.kind = "Ok" /\ result.kind = "Ok"
     /\ args.max > args.min /\ prevSample <= sample)
        => prevResult.val <= result.val

\* C10: once the representability check on the maximum result has passed,
\* the calculation is infallible: the range is max - min, the u32 products
\* do not wrap, and the value for the requested raw fits the i32 output, so
\* the final conversion does not truncate.
InfallibleAfterCheck ==
    (result.kind = "Ok" /\ args.max > args.min)
        => /\ range_u32(args.min, args.max) = ToLimbs3(args.max - args.min)
           /\ ~mul_overflows(sample, args.min, args.max)
           /\ FitsI32(scaled_i64(sample, args.min, args.max, args.scale))

(***************************************************************************)
(* SpecMeasurement: one 4-byte frame is decoded by from_raw and the        *)
(* resulting Measurement is queried through its public accessors.          *)
(***************************************************************************)

MaxStaleQueries == 2

\* Byte values per frame position: both flag bits set and clear, field
\* values at both ends and in the middle, every value of the unused bits.
Byte0Samples == {0, 32, 63, 64, 127, 128, 255}
Byte1Samples == {0, 1, 127, 255}
Byte2Samples == {0, 1, 128, 255}
Byte3Samples == {0, 3, 4, 255}

Frames ==
    {<<b0, b1, b2, b3>> : b0 \in Byte0Samples, b1 \in Byte1Samples,
                          b2 \in Byte2Samples, b3 \in Byte3Samples}

\* Scales passed to the _scaled accessors, around both overflow boundaries.
AccessorScales ==
    {1, 100, 2 ^ 24, I32_MAX \div 125, I32_MAX \div 125 + 1,
     I32_MAX \div 100, I32_MAX \div 100 + 1, I32_MAX}

MeasInit ==
    /\ overflow_checks \in BOOLEAN
    /\ frame \in Frames
    /\ decoded = NotCalled /\ staleLog = <<>> /\ query = NotCalled
    /\ HytIdle /\ ScaleIdle

FromRaw ==
    /\ decoded = NotCalled
    /\ decoded' = from_raw(frame)
    /\ UNCHANGED <<overflow_checks, frame, staleLog, query, hytVars, scaleVars>>

IsStale ==
    /\ decoded.kind = "Ok"
    /\ Len(staleLog) < MaxStaleQueries
    /\ staleLog' = Append(staleLog, is_stale(decoded.val))
    /\ UNCHANGED <<overflow_checks, frame, decoded, query, hytVars, scaleVars>>

\* An accessor call on the decoded Measurement. A Measurement is immutable,
\* so each call's result is a function of it; one call per behaviour is examined.
Accessor(fn, scale, raw, res) ==
    /\ decoded.kind = "Ok"
    /\ query = NotCalled
    /\ query' = [kind |-> res.kind, fn |-> fn, scale |-> scale, raw |-> raw, res |-> res]
    /\ UNCHANGED <<overflow_checks, frame, decoded, staleLog, hytVars, scaleVars>>

HumidityScaled ==
    \E s \in AccessorScales :
        Accessor("humidity_scaled", s, humidity_raw(decoded.val),
                 humidity_scaled(decoded.val, s))

TemperatureScaled ==
    \E s \in AccessorScales :
        Accessor("temperature_scaled", s, temperature_raw(decoded.val),
                 temperature_scaled(decoded.val, s))

Humidity ==
    Accessor("humidity", 1, humidity_raw(decoded.val), humidity(decoded.val))

Temperature ==
    Accessor("temperature", 1, temperature_raw(decoded.val), temperature(decoded.val))

HumidityI8F24 ==
    Accessor("humidity_i8f24", 2 ^ 24, humidity_raw(decoded.val),
             humidity_i8f24(decoded.val))

TemperatureI8F24 ==
    Accessor("temperature_i8f24", 2 ^ 24, temperature_raw(decoded.val),
             temperature_i8f24(decoded.val))

MeasNext ==
    \/ FromRaw
    \/ IsStale
    \/ HumidityScaled
    \/ TemperatureScaled
    \/ Humidity
    \/ Temperature
    \/ HumidityI8F24
    \/ TemperatureI8F24

SpecMeasurement == MeasInit /\ [][MeasNext]_vars

\* The frame's fields by plain arithmetic on its bytes.
FrameHumidity == (frame[1] % 64) * 256 + frame[2]
FrameTemperature == frame[3] * 64 + frame[4] \div 4
FrameCommandMode == frame[1] \div 128 = 1
FrameStale == (frame[1] \div 64) % 2 = 1

HumidityFns == {"humidity_scaled", "humidity", "humidity_i8f24"}
TemperatureFns == {"temperature_scaled", "temperature", "temperature_i8f24"}
Called == query.kind # "NotCalled"

\* C1: from_raw fails with MeasurementTakenInCommandMode, constructing no
\* Measurement, exactly when bit 7 of byte 0 is set; otherwise it returns a
\* Measurement holding the four bytes unchanged.
FromRawChecksCommandBit ==
    decoded.kind # "NotCalled" =>
        /\ decoded = Err("MeasurementTakenInCommandMode") <=> FrameCommandMode
        /\ ~FrameCommandMode => decoded = Ok([raw |-> frame])

FromRawRejected == decoded.kind = "Err" /\ frame[1] = 128

\* Frames that differ from `frame` only in the stale bit, the command-mode
\* bit or the low two bits of byte 3.
SameFields ==
    {<<(frame[1] % 64) + 64 * f, frame[2], frame[3], 4 * (frame[4] \div 4) + u>> :
        f \in 0..3, u \in 0..3}

\* C2: humidity_raw is (byte0 AND 0x3F) * 256 + byte1 and temperature_raw is
\* byte2 * 64 + byte3 div 4; both lie in [0, 16383] and neither depends on
\* the stale bit, the command-mode bit or the low two bits of byte 3.
RawFieldsExtracted ==
    Called =>
        /\ query.fn \in HumidityFns => query.raw = FrameHumidity
        /\ query.fn \in TemperatureFns => query.raw = FrameTemperature
        /\ query.raw \in 0..16383
        /\ \A f \in SameFields :
              /\ humidity_raw([raw |-> f]) = humidity_raw(decoded.val)
              /\ temperature_raw([raw |-> f]) = temperature_raw(decoded.val)

RawFieldsWitness ==
    /\ Called /\ query.fn = "temperature_scaled"
    /\ frame = <<127, 255, 128, 255>> /\ query.raw = 8255

\* The exact value scale * (min + raw * (max - min) / 16383), split so that
\* no intermediate exceeds 31 bits: Whole + Frac / 16383 with
\* 0 <= Frac < 16383 * 16383.
RefWhole(raw, min, max, scale) ==
    scale * ((raw * (max - min)) \div 16383 + min)
        + (scale \div 16383) * ((raw * (max - min)) % 16383)
RefFrac(raw, min, max, scale) == (scale % 16383) * ((raw * (max - min)) % 16383)

Abs(x) == IF x < 0 THEN -x ELSE x

QueryMin == IF query.fn \in HumidityFns THEN 0 ELSE -40
QueryMax == IF query.fn \in HumidityFns THEN 100 ELSE 125
QueryRaw == IF query.fn \in HumidityFns THEN FrameHumidity ELSE FrameTemperature

\* C3: a successful humidity_scaled / temperature_scaled returns the integer
\* nearest to scale * (min*16383 + raw*(max-min)) / 16383, computed as
\* floor((scale*raw*(max-min) + 8191) / 16383) + scale*min; raw = 0 gives
\* scale*min, raw = 16383 gives scale*max, and raw = 8192 with (0, 100) and
\* scale 100 gives 5000.
ScaledIsNearest ==
    (Called /\ query.res.kind = "Ok") =>
        LET whole == RefWhole(QueryRaw, QueryMin, QueryMax, query.scale)
            frac == RefFrac(QueryRaw, QueryMin, QueryMax, query.scale)
            v == query.res.val
        IN  /\ v = whole + (frac + 8191) \div 16383
            /\ 2 * Abs(16383 * (v - whole) - frac) < 16383
            /\ QueryRaw = 0 => v = query.scale * QueryMin
            /\ QueryRaw = 16383 => v = query.scale * QueryMax
            /\ (QueryRaw = 8192 /\ QueryMin = 0 /\ query.scale = 100) => v = 5000

ScaledWitness ==
    /\ Called /\ query.fn = "humidity_scaled" /\ query.scale = 100
    /\ QueryRaw = 8192 /\ query.res = Ok(5000)

\* C4: whether humidity_scaled / temperature_scaled fails depends on scale
\* alone: with S = floor(i32::MAX / max), every scale in [1, S] succeeds and
\* every larger scale fails with ScaleValueOutOfBounds, whatever the raw
\* sample; S >= 2^24, so humidity(), temperature() and the 2^24 accessors
\* never fail.
ScaleThreshold ==
    Called =>
        /\ query.res.kind \in {"Ok", "Err"}
        /\ query.scale >= 1 =>
              (query.res = Err("ScaleValueOutOfBounds")
                  <=> query.scale > I32_MAX \div QueryMax)
        /\ I32_MAX \div QueryMax >= 2 ^ 24
        /\ query.fn \notin {"humidity_scaled", "temperature_scaled"}
              => query.res.kind = "Ok"

ScaleThresholdWitness ==
    /\ Called /\ query.fn = "temperature_scaled"
    /\ query.scale = I32_MAX \div 125 + 1 /\ query.res.kind = "Err"
    /\ QueryRaw = 0

\* C5: a frame with bit 7 clear decodes whether or not bit 6 is set, and
\* every is_stale query on the Measurement returns TRUE exactly when bit 6
\* of byte 0 is set.
StaleIsBit6 ==
    /\ (decoded.kind # "NotCalled" /\ ~FrameCommandMode) => decoded.kind = "Ok"
    /\ \A i \in 1..Len(staleLog) : staleLog[i] = FrameStale

StaleWitness == staleLog = <<TRUE, TRUE>> /\ frame[1] = 127

(***************************************************************************)
(* Spec: the Hyt handle of lib.rs driving an I2C transport.                *)
(***************************************************************************)

MaxCalls == 3

DEFAULT_ADDRESS == 40

\* Addresses a caller may pass to with_address.
Addresses == {DEFAULT_ADDRESS, 41}

\* Frames the sensor may deliver to a 4-byte read.
DeviceFrames == {<<0, 0, 0, 0>>, <<95, 255, 99, 3>>, <<128, 0, 0, 0>>, <<255, 255, 255, 255>>}

\* Errors the transport may report for a read and for a write.
ReadErrors == {"ReadNack", "ReadTimeout"}
WriteErrors == {"WriteNack"}

\* Hyt::new
new == [mode |-> "Normal", address |-> DEFAULT_ADDRESS]

\* Hyt::with_address
with_address(self, address) == [self EXCEPT !.address = address]

\* From<HytError> for Error<I2C>
ErrorFromHyt(other) == [variant |-> "Hyt", inner |-> other]

I2CRead(e) == [variant |-> "I2CRead", inner |-> e]
I2CWrite(e) == [variant |-> "I2CWrite", inner |-> e]

\* The value start_measurement returns for the transport's answer t.
start_measurement(t) == IF t.kind = "Err" THEN Err(I2CWrite(t.err)) ELSE Ok(<<>>)

\* Mutant: the delivered bytes are wrapped without the command-mode check.
read_without_check(t) ==
    IF t.kind = "Err" THEN Err(I2CRead(t.err)) ELSE Ok([raw |-> t.val])

\* The value read returns for the transport's answer t: the `?` after
\* map_err returns early, the `?` after from_raw converts the HytError.
read(t) ==
    IF t.kind = "Err" THEN Err(I2CRead(t.err))
    ELSE IF from_raw(t.val).kind = "Err" THEN Err(ErrorFromHyt(from_raw(t.val).err))
    ELSE Ok(from_raw(t.val).val)

\* todo!() panics; `self` was moved into the call and is dropped.
enter_command_mode(self) == Panic
enter_normal_mode(self) == Panic

Call(fn, arg) == [fn |-> fn, arg |-> arg]
Transaction(op, address, len, answer) ==
    [op |-> op, address |-> address, len |-> len, answer |-> answer]

Init ==
    /\ overflow_checks \in BOOLEAN
    /\ hyt = new
    /\ bus = <<>> /\ calls = <<>> /\ last = NotCalled
    /\ pc = "running"
    /\ MeasIdle /\ ScaleIdle

CanCall == pc = "running" /\ hyt.mode = "Normal" /\ Len(calls) < MaxCalls

WithAddress ==
    /\ CanCall
    /\ \E a \in Addresses :
          /\ hyt' = with_address(hyt, a)
          /\ calls' = Append(calls, Call("with_address", a))
          /\ last' = Ok(with_address(hyt, a))
    /\ UNCHANGED <<overflow_checks, bus, pc, measVars, scaleVars>>

\* Mutant: a failed write is retried once.
StartMeasurementRetries ==
    /\ CanCall
    /\ \E t \in {Ok(<<>>)} \cup {Err(e) : e \in WriteErrors} :
          /\ bus' = IF t.kind = "Err"
                    THEN bus \o <<Transaction("write", hyt.address, 0, t),
                                  Transaction("write", hyt.address, 0, t)>>
                    ELSE Append(bus, Transaction("write", hyt.address, 0, t))
          /\ last' = start_measurement(t)
    /\ calls' = Append(calls, Call("start_measurement", 0))
    /\ UNCHANGED <<overflow_checks, hyt, pc, measVars, scaleVars>>

\* self.i2c.write(self.address, &[]): one transaction, answered Ok or Err.
StartMeasurement ==
    /\ CanCall
    /\ \E t \in {Ok(<<>>)} \cup {Err(e) : e \in WriteErrors} :
          /\ bus' = Append(bus, Transaction("write", hyt.address, 0, t))
          /\ last' = start_measurement(t)
    /\ calls' = Append(calls, Call("start_measurement", 0))
    /\ UNCHANGED <<overflow_checks, hyt, pc, measVars, scaleVars>>

\* self.i2c.read(self.address, &mut raw): one transaction, answered with
\* four bytes or Err.
Read ==
    /\ CanCall
    /\ \E t \in {Ok(f) : f \in DeviceFrames} \cup {Err(e) : e \in ReadErrors} :
          /\ bus' = Append(bus, Transaction("read", hyt.address, 4, t))
          /\ last' = read(t)
    /\ calls' = Append(calls, Call("read", 0))
    /\ UNCHANGED <<overflow_checks, hyt, pc, measVars, scaleVars>>

\* enter_command_mode(self): the handle is moved into the call, which
\* panics; nothing is returned to the caller.
EnterCommandMode ==
    /\ CanCall
    /\ last' = enter_command_mode(hyt)
    /\ hyt' = NoHandle
    /\ pc' = "panicked"
    /\ calls' = Append(calls, Call("enter_command_mode", 0))
    /\ UNCHANGED <<overflow_checks, bus, measVars, scaleVars>>

Next ==
    \/ WithAddress
    \/ StartMeasurement
    \/ Read
    \/ EnterCommandMode

Spec == Init /\ [][Next]_vars

LastCall == calls[Len(calls)]
LastTransaction == bus[Len(bus)]

\* C6: read returns the transport's read error unchanged as I2CRead, without
\* decoding; or MeasurementTakenInCommandMode when the read succeeds and bit
\* 7 of byte 0 is set; or else a Measurement wrapping exactly the 4 bytes the
\* transport delivered.
ReadOutcome ==
    (Len(calls) > 0 /\ LastCall.fn = "read") =>
        /\ Len(bus) > 0 /\ LastTransaction.op = "read"
        /\ LET t == LastTransaction.answer
           IN  IF t.kind = "Err"
               THEN last = Err([variant |-> "I2CRead", inner |-> t.err])
               ELSE IF t.val[1] >= 128
               THEN last = Err([variant |-> "Hyt",
                                inner |-> "MeasurementTakenInCommandMode"])
               ELSE last = Ok([raw |-> t.val])

ReadOutcomeWitness ==
    /\ Len(calls) = 2 /\ LastCall.fn = "read"
    /\ LastTransaction.answer = Ok(<<255, 255, 255, 255>>)
    /\ last.kind = "Err" /\ last.err.variant = "Hyt"

RECURSIVE Expected(_, _)
\* The transactions a sequence of calls asks for, the handle being
\* configured with address a before the first of them.
Expected(cs, a) ==
    IF cs = <<>> THEN <<>>
    ELSE IF Head(cs).fn = "with_address" THEN Expected(Tail(cs), Head(cs).arg)
    ELSE IF Head(cs).fn = "start_measurement"
         THEN <<[op |-> "write", address |-> a, len |-> 0]>> \o Expected(Tail(cs), a)
    ELSE IF Head(cs).fn = "read"
         THEN <<[op |-> "read", address |-> a, len |-> 4]>> \o Expected(Tail(cs), a)
    ELSE Expected(Tail(cs), a)

RECURSIVE Configured(_, _)
\* The address with_address calls leave configured, starting from a.
Configured(cs, a) ==
    IF cs = <<>> THEN a
    ELSE Configured(Tail(cs), IF Head(cs).fn = "with_address" THEN Head(cs).arg ELSE a)

\* C7: the transport has seen exactly one zero-length write per
\* start_measurement call and one 4-byte read per read call, in call order,
\* failed or not, and nothing else; each is addressed to the configured
\* address, which is 0x28 unless with_address changed it and which
\* start_measurement and read leave alone.
OneTransactionPerCall ==
    /\ [i \in 1..Len(bus) |->
           [op |-> bus[i].op, address |-> bus[i].address, len |-> bus[i].len]]
          = Expected(calls, 40)
    /\ hyt.mode = "Normal" => hyt.address = Configured(calls, 40)

OneTransactionWitness ==
    /\ Len(calls) = 3 /\ Len(bus) = 2
    /\ calls[1].fn = "start_measurement" /\ bus[1].answer.kind = "Err"
    /\ calls[2] = Call("with_address", 41)
    /\ calls[3].fn = "read" /\ bus[2].address = 41

\* C8: a failed attempt to change mode returns the original handle, in its
\* original mode with transport and address intact, as an explicit error
\* result; it does not abort and the caller keeps a handle.
ModeChangeReturnsHandle ==
    (Len(calls) > 0 /\ LastCall.fn = "enter_command_mode") =>
        /\ pc = "running"
        /\ last.kind \in {"Ok", "Err"}
        /\ last.kind = "Err" =>
              hyt = [mode |-> "Normal", address |-> Configured(calls, 40)]
        /\ hyt # NoHandle

====
